---- MODULE Spec2Model ----
(***************************************************************************)
(* Model of the cron-driven metric collector in src/main.go.               *)
(*                                                                         *)
(* Time is counted in minutes, the step of the cron schedule               *)
(* "* / 1 * * * *" (main.go:212): one unit of `now` is what                *)
(* time.Minute.Microseconds() is in the program, so the program's          *)
(* (15 * time.Minute).Microseconds() is 15 units here.                     *)
(*                                                                         *)
(* robfig/cron v3, as main.go constructs it (cron.New() with no options),  *)
(* starts every due job in a goroutine of its own, wraps it in no chain    *)
(* (no SkipIfStillRunning, no Recover), and Stop() only stops the          *)
(* scheduler loop: running jobs go on, and the context Stop() returns is   *)
(* what a caller would wait on.                                            *)
(***************************************************************************)
EXTENDS Integers, Sequences, FiniteSets, TLC

\* Number of cron ticks (hence runs) the model follows.
MaxRuns == 2

\* The spec's maxGap (spec.md 4.1), in minutes.  The program has no such
\* value; the model needs it only to state the claims that speak of it.
MaxGap == 16

\* (15 * time.Minute).Microseconds(), in minutes.
FifteenMinutes == 15

Runs == 1..MaxRuns

VARIABLES
    now,        \* the wall clock, what time.Now() returns
    proc,       \* the process: "up", "exited" (main returned),
                \*   "fatal" (log.Fatal: os.Exit(1)), "panic" (unrecovered panic)
    mainPc,     \* main: "wait" (blocked on <-done), "stopped" (after c.Stop())
    cron,       \* the scheduler: "started" or "stopped"
    runs,       \* one record per invocation of CalculateMetricAndPushToDB
    metrics,    \* the metrics collection, in insertion order
    updateLog   \* the update-log collection: last_fetch_time values, in insertion order

vars == <<now, proc, mainPc, cron, runs, metrics, updateLog>>

----------------------------------------------------------------------------
\* Go slices: a nil slice and an empty non-nil slice both have length 0.

NilSlice == [nil |-> TRUE, elems |-> <<>>]

EmptySlice == [nil |-> FALSE, elems |-> <<>>]

SomeSlice == [nil |-> FALSE, elems |-> <<"x">>]

Slices == {NilSlice, EmptySlice, SomeSlice}

SliceLen(s) == Len(s.elems)

\* GraphData{}: the zero value.
ZeroGraph == [Nodes |-> NilSlice, Edges |-> NilSlice]

Graphs == [Nodes : Slices, Edges : Slices]

\* A graph with nodes and edges.
FullGraph == [Nodes |-> SomeSlice, Edges |-> SomeSlice]

----------------------------------------------------------------------------
\* What the graph API can answer to one http.Get.
\*   "transport": http.Get returns an error;
\*   "readerr":   io.ReadAll returns an error;
\*   "short":     a body of fewer than 10 bytes;
\*   "badjson":   a body of 10 bytes or more that json.Unmarshal rejects;
\*   "json":      a body of 10 bytes or more that decodes to `graph`
\*                (a body that carries a "data" object is at least 11 bytes long).
\* A missing or null "nodes"/"edges" decodes to a nil slice, [] to an empty one.

Statuses == {200, 500}

NoResponse == [kind |-> "none", status |-> 0, graph |-> ZeroGraph]

Responses ==
    {[kind |-> "transport", status |-> 0, graph |-> ZeroGraph]}
    \cup [kind : {"readerr", "short", "badjson"}, status : Statuses, graph : {ZeroGraph}]
    \cup [kind : {"json"}, status : Statuses, graph : Graphs]

----------------------------------------------------------------------------
\* The update-log query: Find({}, sort last_fetch_time descending, limit 1).

RECURSIVE InsertDesc(_, _)
InsertDesc(x, s) ==
    IF s = <<>> THEN <<x>>
    ELSE IF x >= Head(s) THEN <<x>> \o s
    ELSE <<Head(s)>> \o InsertDesc(x, Tail(s))

RECURSIVE SortDesc(_)
SortDesc(s) == IF s = <<>> THEN <<>> ELSE InsertDesc(Head(s), SortDesc(Tail(s)))

\* The same query without the sort: the first document in natural order.
FindLatest_unsorted(log) == IF log = <<>> THEN <<>> ELSE <<Head(log)>>

\* The cursor's documents: at most one, the greatest last_fetch_time.
FindLatest(log) == IF log = <<>> THEN <<>> ELSE <<Head(SortDesc(log))>>

\* start_time as initialised from end_time, with the lookback left out.
DefaultStart_nolookback(end_time) == end_time

\* start_time := end_time - (15 * time.Minute).Microseconds()
DefaultStart(end_time) == end_time - FifteenMinutes

\* The emptiness test with "and" for "or".
IsEmptyGraph_both(g) == SliceLen(g.Nodes) = 0 /\ SliceLen(g.Edges) = 0

\* len(graph_data.Nodes) == 0 || len(graph_data.Edges) == 0
IsEmptyGraph(g) == SliceLen(g.Nodes) = 0 \/ SliceLen(g.Edges) = 0

\* PushToDB's own test: data.Data.Nodes == nil || data.Data.Edges == nil
IsNilGraph(g) == g.Nodes.nil \/ g.Edges.nil

----------------------------------------------------------------------------
\* Besides the job's own variables a run keeps, for the properties: whether
\* the run before it had returned when it started (afterPrev), how many
\* watermark records existed when it queried the log (logSeen), whether a
\* record was found, the API's answer, and how many inserts it made.
IdleRun ==
    [pc |-> "idle", start_time |-> 0, end_time |-> 0, found |-> FALSE,
     resp |-> NoResponse, graph_data |-> ZeroGraph, result |-> "", wrote |-> 0,
     afterPrev |-> FALSE, logSeen |-> 0]

\* The stores as an earlier life of the process can have left them.

\* The record of a successful run that ended at `e` and found no watermark.
EarlierRecord(e) == [StartTime |-> DefaultStart(e), EndTime |-> e, Data |-> FullGraph]

\* Empty stores; or one successful run that ended at 0, with the process
\* starting right after it or after an outage of MaxGap - 1 minutes; or two
\* overlapping runs, begun at -1 and at 0, of which the later finished first.
Init ==
    /\ proc = "up"
    /\ mainPc = "wait"
    /\ cron = "started"
    /\ runs = [r \in Runs |-> IdleRun]
    /\ \/ /\ metrics = <<>>
          /\ updateLog = <<>>
          /\ now = 0
       \/ /\ metrics = <<EarlierRecord(0)>>
          /\ updateLog = <<0>>
          /\ now \in {0, MaxGap - 1}
       \/ /\ metrics = <<EarlierRecord(0), EarlierRecord(-1)>>
          /\ updateLog = <<0, -1>>
          /\ now = 0

Active(r) == runs[r].pc \notin {"idle", "done"}

Finish(r, res) == [runs[r] EXCEPT !.pc = "done", !.result = res]

\* The scheduler fires at the next minute and starts the job in a new
\* goroutine, whatever earlier runs are doing; the job samples time.Now().
Tick(r) ==
    /\ proc = "up"
    /\ cron = "started"
    /\ runs[r].pc = "idle"
    /\ \A q \in Runs : q < r => runs[q].pc # "idle"
    /\ now' = now + 1
    /\ runs' = [runs EXCEPT ![r] =
                    [@ EXCEPT !.pc = "connect",
                              !.end_time = now',
                              !.start_time = DefaultStart(now'),
                              !.afterPrev = (r = 1 \/ runs[r - 1].pc = "done")]]
    /\ UNCHANGED <<proc, mainPc, cron, metrics, updateLog>>

\* ConnectToMongoDB at the start of the run; on an error log.Fatal exits
\* the process.
Connect(r) ==
    /\ proc = "up"
    /\ runs[r].pc = "connect"
    /\ \/ /\ runs' = [runs EXCEPT ![r].pc = "find"]
          /\ UNCHANGED proc
       \/ /\ proc' = "fatal"
          /\ UNCHANGED runs
    /\ UNCHANGED <<now, mainPc, cron, metrics, updateLog>>

\* The watermark query and the choice of start_time, up to the http.Get
\* that CalculateMetric issues.
ReadWatermark(r) ==
    /\ proc = "up"
    /\ runs[r].pc = "find"
    /\ \/ runs' = [runs EXCEPT ![r] = Finish(r, "QueryFailed")]
       \/ /\ FindLatest(updateLog) # <<>>
          /\ runs' = [runs EXCEPT ![r] = Finish(r, "CursorDecodeFailed")]
       \/ LET cursor == FindLatest(updateLog) IN
          runs' = [runs EXCEPT ![r] =
                      IF cursor # <<>>
                      THEN [@ EXCEPT !.pc = "get", !.found = TRUE,
                                     !.start_time = cursor[1],
                                     !.logSeen = Len(updateLog)]
                      ELSE [@ EXCEPT !.pc = "get"]]
    /\ UNCHANGED <<now, proc, mainPc, cron, metrics, updateLog>>

\* The API's answer, with the decoding error dropped: what json.Unmarshal
\* had filled in before it failed goes on to PushToDB.
GetResponse_ignoreUnmarshalErr(r) ==
    /\ proc = "up"
    /\ runs[r].pc = "get"
    /\ \E resp \in Responses :
         \/ /\ resp.kind = "transport"
            /\ runs' = [runs EXCEPT ![r] = [Finish(r, "Transport") EXCEPT !.resp = resp]]
            /\ UNCHANGED proc
         \/ /\ resp.kind = "readerr"
            /\ runs' = [runs EXCEPT ![r] = [Finish(r, "ReadBody") EXCEPT !.resp = resp]]
            /\ UNCHANGED proc
         \/ /\ resp.kind = "short"
            /\ proc' = "panic"
            /\ runs' = [runs EXCEPT ![r].resp = resp]
         \/ /\ resp.kind = "badjson"
            /\ runs' = [runs EXCEPT ![r] =
                          [@ EXCEPT !.pc = "push", !.resp = resp,
                                    !.graph_data = FullGraph]]
            /\ UNCHANGED proc
         \/ /\ resp.kind = "json"
            /\ runs' = [runs EXCEPT ![r] =
                          IF IsEmptyGraph(resp.graph)
                          THEN [Finish(r, "skipped") EXCEPT
                                   !.resp = resp, !.graph_data = resp.graph]
                          ELSE [@ EXCEPT !.pc = "push", !.resp = resp,
                                         !.graph_data = resp.graph]]
            /\ UNCHANGED proc
    /\ UNCHANGED <<now, mainPc, cron, metrics, updateLog>>

\* The API's answer, with the watermark advanced on the skip too: an empty
\* graph appends the run's end_time to the update log.
GetResponse_advanceOnSkip(r) ==
    /\ proc = "up"
    /\ runs[r].pc = "get"
    /\ \E resp \in Responses :
         \/ /\ resp.kind = "transport"
            /\ runs' = [runs EXCEPT ![r] = [Finish(r, "Transport") EXCEPT !.resp = resp]]
            /\ UNCHANGED <<proc, updateLog>>
         \/ /\ resp.kind = "readerr"
            /\ runs' = [runs EXCEPT ![r] = [Finish(r, "ReadBody") EXCEPT !.resp = resp]]
            /\ UNCHANGED <<proc, updateLog>>
         \/ /\ resp.kind = "short"
            /\ proc' = "panic"
            /\ runs' = [runs EXCEPT ![r].resp = resp]
            /\ UNCHANGED updateLog
         \/ /\ resp.kind = "badjson"
            /\ runs' = [runs EXCEPT ![r] = [Finish(r, "Unmarshal") EXCEPT !.resp = resp]]
            /\ UNCHANGED <<proc, updateLog>>
         \/ /\ resp.kind = "json"
            /\ runs' = [runs EXCEPT ![r] =
                          IF IsEmptyGraph(resp.graph)
                          THEN [Finish(r, "skipped") EXCEPT
                                   !.resp = resp, !.graph_data = resp.graph]
                          ELSE [@ EXCEPT !.pc = "push", !.resp = resp,
                                         !.graph_data = resp.graph]]
            /\ updateLog' = IF IsEmptyGraph(resp.graph)
                            THEN Append(updateLog, runs[r].end_time)
                            ELSE updateLog
            /\ UNCHANGED proc
    /\ UNCHANGED <<now, mainPc, cron, metrics>>

\* The API's answer: the rest of CalculateMetric, then the emptiness test
\* and the call of PushToDB.
GetResponse(r) ==
    /\ proc = "up"
    /\ runs[r].pc = "get"
    /\ \E resp \in Responses :
         \/ /\ resp.kind = "transport"
            /\ runs' = [runs EXCEPT ![r] = [Finish(r, "Transport") EXCEPT !.resp = resp]]
            /\ UNCHANGED proc
         \/ /\ resp.kind = "readerr"
            /\ runs' = [runs EXCEPT ![r] = [Finish(r, "ReadBody") EXCEPT !.resp = resp]]
            /\ UNCHANGED proc
         \/ /\ resp.kind = "short"      \* string(body)[:10] panics
            /\ proc' = "panic"
            /\ runs' = [runs EXCEPT ![r].resp = resp]
         \/ /\ resp.kind = "badjson"
            /\ runs' = [runs EXCEPT ![r] = [Finish(r, "Unmarshal") EXCEPT !.resp = resp]]
            /\ UNCHANGED proc
         \/ /\ resp.kind = "json"
            /\ runs' = [runs EXCEPT ![r] =
                          IF IsEmptyGraph(resp.graph)
                          THEN [Finish(r, "skipped") EXCEPT
                                   !.resp = resp, !.graph_data = resp.graph]
                          ELSE [@ EXCEPT !.pc = "push", !.resp = resp,
                                         !.graph_data = resp.graph]]
            /\ UNCHANGED proc
    /\ UNCHANGED <<now, mainPc, cron, metrics, updateLog>>

\* PushToDB up to its connection: the nil test, then ConnectToMongoDB.
PushEnter(r) ==
    /\ proc = "up"
    /\ runs[r].pc = "push"
    /\ IF IsNilGraph(runs[r].graph_data)
       THEN /\ runs' = [runs EXCEPT ![r] = Finish(r, "nil")]
            /\ UNCHANGED proc
       ELSE \/ /\ runs' = [runs EXCEPT ![r].pc = "insertMetrics"]
               /\ UNCHANGED proc
            \/ /\ proc' = "fatal"
               /\ UNCHANGED runs
    /\ UNCHANGED <<now, mainPc, cron, metrics, updateLog>>

\* The metrics insert with its error dropped: the watermark insert follows
\* a failed record write.
InsertMetrics_ignoreErr(r) ==
    /\ proc = "up"
    /\ runs[r].pc = "insertMetrics"
    /\ \/ /\ metrics' = Append(metrics,
                 [StartTime |-> runs[r].start_time, EndTime |-> runs[r].end_time,
                  Data |-> runs[r].graph_data])
          /\ runs' = [runs EXCEPT ![r] = [@ EXCEPT !.pc = "insertLog", !.wrote = 1]]
       \/ /\ runs' = [runs EXCEPT ![r].pc = "insertLog"]
          /\ UNCHANGED metrics
    /\ UNCHANGED <<now, proc, mainPc, cron, updateLog>>

\* metricsCollectionObj.InsertOne(data)
InsertMetrics(r) ==
    /\ proc = "up"
    /\ runs[r].pc = "insertMetrics"
    /\ \/ /\ metrics' = Append(metrics,
                 [StartTime |-> runs[r].start_time, EndTime |-> runs[r].end_time,
                  Data |-> runs[r].graph_data])
          /\ runs' = [runs EXCEPT ![r] = [@ EXCEPT !.pc = "insertLog", !.wrote = 1]]
       \/ /\ runs' = [runs EXCEPT ![r] = Finish(r, "RecordWriteFailed")]
          /\ UNCHANGED metrics
    /\ UNCHANGED <<now, proc, mainPc, cron, updateLog>>

\* The watermark kept as a single record: the insert replaces what the
\* update log held.
InsertLog_overwrite(r) ==
    /\ proc = "up"
    /\ runs[r].pc = "insertLog"
    /\ \/ /\ updateLog' = <<runs[r].end_time>>
          /\ runs' = [runs EXCEPT ![r] = [Finish(r, "ok") EXCEPT !.wrote = 2]]
       \/ /\ runs' = [runs EXCEPT ![r] = Finish(r, "WatermarkWriteFailed")]
          /\ UNCHANGED updateLog
    /\ UNCHANGED <<now, proc, mainPc, cron, metrics>>

\* The watermark insert with a compensating delete: a failed watermark write
\* takes the record just stored out of the metrics collection again.
InsertLog_rollback(r) ==
    /\ proc = "up"
    /\ runs[r].pc = "insertLog"
    /\ \/ /\ updateLog' = Append(updateLog, runs[r].end_time)
          /\ runs' = [runs EXCEPT ![r] = [Finish(r, "ok") EXCEPT !.wrote = 2]]
          /\ UNCHANGED metrics
       \/ /\ runs' = [runs EXCEPT ![r] = Finish(r, "WatermarkWriteFailed")]
          /\ metrics' = SubSeq(metrics, 1, Len(metrics) - 1)
          /\ UNCHANGED updateLog
    /\ UNCHANGED <<now, proc, mainPc, cron>>

\* updateLogCollectionObj.InsertOne(UpdateLog{LastFetchTime: data.EndTime})
InsertLog(r) ==
    /\ proc = "up"
    /\ runs[r].pc = "insertLog"
    /\ \/ /\ updateLog' = Append(updateLog, runs[r].end_time)
          /\ runs' = [runs EXCEPT ![r] = [Finish(r, "ok") EXCEPT !.wrote = 2]]
       \/ /\ runs' = [runs EXCEPT ![r] = Finish(r, "WatermarkWriteFailed")]
          /\ UNCHANGED updateLog
    /\ UNCHANGED <<now, proc, mainPc, cron, metrics>>

\* main receives SIGINT/SIGTERM on `done` and calls c.Stop(), whose
\* returned context it drops.
Signal ==
    /\ proc = "up"
    /\ mainPc = "wait"
    /\ mainPc' = "stopped"
    /\ cron' = "stopped"
    /\ UNCHANGED <<now, proc, runs, metrics, updateLog>>

\* main returns: the process exits, and its goroutines with it.
MainReturn ==
    /\ proc = "up"
    /\ mainPc = "stopped"
    /\ proc' = "exited"
    /\ UNCHANGED <<now, mainPc, cron, runs, metrics, updateLog>>

Next ==
    \/ \E r \in Runs : Tick(r)
    \/ \E r \in Runs : Connect(r)
    \/ \E r \in Runs : ReadWatermark(r)
    \/ \E r \in Runs : GetResponse(r)
    \/ \E r \in Runs : PushEnter(r)
    \/ \E r \in Runs : InsertMetrics(r)
    \/ \E r \in Runs : InsertLog(r)
    \/ Signal
    \/ MainReturn

Spec == Init /\ [][Next]_vars

\* PushToDB called on its own, with any Metrics value: the first run stands
\* at the call, its window the default one, its graph any of Graphs.
InitPush ==
    /\ proc = "up"
    /\ mainPc = "wait"
    /\ cron = "started"
    /\ now = 0
    /\ \E g \in Graphs :
         runs = [r \in Runs |->
                    IF r = 1
                    THEN [IdleRun EXCEPT !.pc = "push", !.start_time = DefaultStart(0),
                                         !.end_time = 0, !.graph_data = g]
                    ELSE IdleRun]
    /\ \/ /\ metrics = <<>>
          /\ updateLog = <<>>
       \/ /\ metrics = <<EarlierRecord(-1)>>
          /\ updateLog = <<-1>>

SpecPush == InitPush /\ [][Next]_vars

----------------------------------------------------------------------------
\* Vocabulary of the properties.

\* The run has handed its window to the fetcher (http.Get was issued).
Fetched(r) ==
    \/ runs[r].pc \in {"get", "push", "insertMetrics", "insertLog"}
    \/ runs[r].pc = "done" /\ runs[r].resp.kind # "none"

\* The greatest value of a non-empty log.
MaxOf(log) ==
    CHOOSE x \in {log[i] : i \in 1..Len(log)} :
        \A j \in 1..Len(log) : log[j] <= x

\* A graph with no node or with no edge.
NoNodesOrNoEdges(g) == Len(g.Nodes.elems) = 0 \/ Len(g.Edges.elems) = 0

FetchErrors == {"Transport", "ReadBody", "Unmarshal", "BadStatus"}

----------------------------------------------------------------------------
\* C1: at most one run of CalculateMetricAndPushToDB is active at any time; a
\* tick that fires while a run has not returned starts no second run.
C1_AtMostOneRun == Cardinality({r \in Runs : Active(r)}) <= 1

\* C2: the watermark values appended to the update log, in the order they
\* are written, never decrease: each appended value is at least the one
\* written before it.
C2_AppendsNonDecreasing ==
    [][(Len(updateLog') = Len(updateLog) + 1 /\ updateLog # <<>>)
          => updateLog'[Len(updateLog')] >= updateLog[Len(updateLog)]]_vars

\* C3: no run hands the fetcher a window that starts before now - maxGap; a
\* run that found a watermark older than that fetches {now - maxGap, now}.
C3_WindowClamped ==
    \A r \in Runs :
        Fetched(r) => runs[r].start_time >= runs[r].end_time - MaxGap

\* C4: a run that finds no watermark record fetches
\* {now - 15 minutes, now}, now being the time sampled when the run started.
C4_DefaultWindow ==
    [][\A r \in Runs :
          /\ (runs[r].pc = "idle" /\ runs'[r].pc # "idle")
                => runs'[r].end_time = now'
          /\ (runs[r].pc = "find" /\ runs'[r].pc = "get" /\ updateLog = <<>>)
                => /\ runs'[r].start_time = runs[r].end_time - FifteenMinutes
                   /\ runs'[r].end_time = runs[r].end_time
                   /\ ~runs'[r].found]_vars

\* C4's case: a run found the log empty and fetched the default window.
C4_Witness ==
    \E r \in Runs :
        /\ Fetched(r)
        /\ ~runs[r].found
        /\ runs[r].end_time > 0
        /\ runs[r].start_time = runs[r].end_time - FifteenMinutes

\* C5: a run that reads a watermark w no older than maxGap fetches {w, now},
\* w being the greatest last_fetch_time in the log when it is read.
C5_WindowFromWatermark ==
    [][\A r \in Runs :
          (/\ runs[r].pc = "find"
           /\ runs'[r].pc = "get"
           /\ updateLog # <<>>
           /\ runs[r].end_time - MaxOf(updateLog) <= MaxGap)
          => /\ runs'[r].start_time = MaxOf(updateLog)
             /\ runs'[r].end_time = runs[r].end_time
             /\ runs'[r].found]_vars

\* C5's case: a run fetches from a watermark that is the greatest of a log
\* of several values and not the last one inserted.
C5_Witness ==
    \E r \in Runs :
        /\ runs[r].pc = "get"
        /\ runs[r].found
        /\ Len(updateLog) >= 2
        /\ runs[r].start_time = MaxOf(updateLog)
        /\ runs[r].start_time # updateLog[Len(updateLog)]
        /\ runs[r].end_time - runs[r].start_time <= MaxGap

\* C6: when the API returns a graph with no node or with no edge, the run
\* writes no metrics record and no watermark record, and ends without an
\* error, the process and the scheduler going on as they were.
C6_EmptyGraphSkips ==
    [][\A r \in Runs :
          (/\ runs[r].pc = "get"
           /\ runs'[r].resp.kind = "json"
           /\ NoNodesOrNoEdges(runs'[r].resp.graph))
          => /\ runs'[r].pc = "done"
             /\ runs'[r].result = "skipped"
             /\ runs'[r].wrote = 0
             /\ metrics' = metrics
             /\ updateLog' = updateLog
             /\ proc' = "up"
             /\ cron' = cron]_vars

\* C6's case: a run over non-empty stores ended on a graph that has nodes
\* but no edge, while the scheduler is still started.
C6_Witness ==
    \E r \in Runs :
        /\ runs[r].pc = "done"
        /\ runs[r].resp.kind = "json"
        /\ runs[r].resp.graph.Nodes = SomeSlice
        /\ runs[r].resp.graph.Edges = EmptySlice
        /\ runs[r].result = "skipped"
        /\ updateLog # <<>>
        /\ proc = "up"
        /\ cron = "started"

\* C7: a run whose API answer has a non-success status ends with a fetch
\* error, whatever the body, and writes neither record nor watermark.
C7_BadStatusIsFetchError ==
    \A r \in Runs :
        (runs[r].resp.kind # "none" /\ runs[r].resp.status \notin {0, 200})
        => /\ runs[r].wrote = 0
           /\ runs[r].pc \in {"get", "done"}
           /\ runs[r].pc = "done" => runs[r].result \in FetchErrors

\* C8: no failure of a stage of a run terminates the process: it ends only
\* when main returns.
C8_FailuresNeverTerminate == proc \in {"up", "exited"}

\* C9: PushToDB, given a snapshot with no node or with no edge (nil or not),
\* writes nothing and returns no error; every stored record has nodes and edges.
C9_EmptySnapshotNotStored ==
    /\ \A r \in Runs :
          NoNodesOrNoEdges(runs[r].graph_data)
          => /\ runs[r].wrote = 0
             /\ runs[r].pc \notin {"insertMetrics", "insertLog"}
             /\ runs[r].result \notin {"RecordWriteFailed", "WatermarkWriteFailed"}
    /\ \A i \in 1..Len(metrics) : ~NoNodesOrNoEdges(metrics[i].Data)

\* C10: after Stop the process does not exit while a run is in flight, and
\* no run starts once the scheduler is stopped.
C10_GracefulStop ==
    [][/\ proc' = "exited" => \A r \in Runs : ~Active(r)
       /\ cron = "stopped" =>
             \A r \in Runs : runs[r].pc = "idle" => runs'[r].pc = "idle"]_vars

\* C11: every window handed to the fetcher and every window stored in a
\* metrics record has start <= end, whatever the interleaving of runs.
C11_WindowOrdered ==
    /\ \A r \in Runs : Fetched(r) => runs[r].start_time <= runs[r].end_time
    /\ \A i \in 1..Len(metrics) : metrics[i].StartTime <= metrics[i].EndTime

\* C12: the run that starts next after a run has persisted its window and
\* its watermark e plans a window that starts at e.  The run that persisted
\* last is the one whose watermark is the last of the log: for the first run
\* that is a run of the earlier life, for a later run the run before it.
C12_NextStartsAtLastEnd ==
    [][\A q \in Runs :
          (runs[q].pc = "find" /\ runs'[q].pc = "get")
          => /\ (q = 1 /\ updateLog # <<>> /\ \A r \in Runs : runs[r].wrote < 2)
                => runs'[q].start_time = updateLog[Len(updateLog)]
             /\ (q > 1 /\ runs[q].afterPrev /\ runs[q - 1].wrote = 2)
                => runs'[q].start_time = runs[q - 1].end_time]_vars

\* The metrics store holds the record of run r's window.
Stored(r) ==
    \E i \in 1..Len(metrics) :
        /\ metrics[i].StartTime = runs[r].start_time
        /\ metrics[i].EndTime = runs[r].end_time

\* C13: in PushToDB the metrics record is written before the watermark
\* record, and when the record write fails the watermark write is not
\* attempted: the call returns the error with the update log as it was.
C13_RecordBeforeWatermark ==
    [][\A r \in Runs :
          /\ (runs[r].pc = "insertLog" /\ runs'[r].pc # "insertLog"
                 /\ updateLog' # updateLog)
             => Stored(r) /\ runs[r].wrote = 1
          /\ (runs[r].pc = "insertMetrics" /\ runs'[r].pc # "insertMetrics"
                 /\ metrics' = metrics)
             => /\ runs'[r].pc = "done"
                /\ runs'[r].result = "RecordWriteFailed"
                /\ updateLog' = updateLog
          /\ runs[r].result = "RecordWriteFailed" => runs'[r] = runs[r]]_vars

\* C13's case: one run's record write failed and left no record and no
\* watermark of its own, while another run wrote record and watermark.
C13_Witness ==
    \E r, q \in Runs :
        /\ runs[r].result = "RecordWriteFailed"
        /\ ~Stored(r)
        /\ \A i \in 1..Len(updateLog) : updateLog[i] # runs[r].end_time
        /\ runs[q].result = "ok"
        /\ Stored(q)

\* Run q takes the step that reads the watermark and issues the fetch.
Plans(q) == runs[q].pc = "find" /\ runs'[q].pc = "get"

\* Run q started after the run before it, q - 1, had returned with `res`.
NextAfter(q, res) == q > 1 /\ runs[q].afterPrev /\ runs[q - 1].result = res

\* C14 as stated: when the watermark write fails after the record write,
\* the record stays stored, the latest watermark keeps its value, and the
\* next run plans a window that contains the stored record's whole window.
C14_NextWindowContainsRecord ==
    [][\A q \in Runs :
          /\ (runs[q].pc = "insertLog" /\ runs'[q].result = "WatermarkWriteFailed")
             => metrics' = metrics /\ Stored(q) /\ updateLog' = updateLog
          /\ (Plans(q) /\ NextAfter(q, "WatermarkWriteFailed"))
             => /\ Stored(q - 1)
                /\ runs'[q].start_time <= runs[q - 1].start_time
                /\ runs'[q].end_time >= runs[q - 1].end_time]_vars

\* C14, amended: the record stays stored and the update log is unchanged;
\* if the failed run had found a watermark w and no watermark was appended
\* since it read the log, the next run plans {w, now'}, which contains the
\* stored record's window; if no watermark record exists, the next run plans
\* {now' - 15 minutes, now'}, which starts after the stored record's start.
C14_DuplicateFetchFromWatermark ==
    [][\A q \in Runs :
          /\ (runs[q].pc = "insertLog" /\ runs'[q].result = "WatermarkWriteFailed")
             => metrics' = metrics /\ Stored(q) /\ updateLog' = updateLog
          /\ (Plans(q) /\ NextAfter(q, "WatermarkWriteFailed"))
             => /\ Stored(q - 1)
                /\ (runs[q - 1].found /\ Len(updateLog) = runs[q - 1].logSeen)
                   => /\ runs'[q].start_time = runs[q - 1].start_time
                      /\ runs'[q].end_time > runs[q - 1].end_time
                /\ (~runs[q - 1].found /\ updateLog = <<>>)
                   => /\ runs'[q].start_time = runs[q].end_time - FifteenMinutes
                      /\ runs'[q].start_time > runs[q - 1].start_time
                      /\ runs'[q].end_time > runs[q - 1].end_time]_vars

\* C14's case: the run after a failed watermark write fetches again from
\* the watermark the failed run had read, over the record it left stored.
C14_Witness ==
    \E q \in Runs :
        /\ runs[q].pc = "get"
        /\ NextAfter(q, "WatermarkWriteFailed")
        /\ runs[q - 1].found
        /\ Stored(q - 1)
        /\ runs[q].start_time = runs[q - 1].start_time
        /\ runs[q].end_time > runs[q - 1].end_time

\* Every watermark appended since run r queried the log is run r's own: no
\* other run has appended one.
NoOtherAppendSince(r) ==
    \A i \in (runs[r].logSeen + 1)..Len(updateLog) : updateLog[i] = runs[r].end_time

\* C15 as stated: the run after a run skipped for an empty graph starts its
\* window where the skipped run's window started, with or without a
\* watermark record.
C15_RetrySameStart ==
    [][\A q \in Runs :
          (Plans(q) /\ NextAfter(q, "skipped"))
          => runs'[q].start_time = runs[q - 1].start_time]_vars

\* C15, amended: if the skipped run had found a watermark w and no other run
\* has appended a watermark since, the next run starts its window at w, the
\* skipped run's start; if there is no watermark record, the next run
\* starts at now' - 15 minutes, later than the skipped run's start.
C15_RetryFromWatermark ==
    [][\A q \in Runs :
          (Plans(q) /\ NextAfter(q, "skipped") /\ NoOtherAppendSince(q - 1))
          => /\ runs[q - 1].found
                => runs'[q].start_time = runs[q - 1].start_time
             /\ ~runs[q - 1].found
                => /\ runs'[q].start_time = runs[q].end_time - FifteenMinutes
                   /\ runs'[q].start_time > runs[q - 1].start_time]_vars

\* C15's case: the run after a skipped run fetches from the watermark the
\* skipped run had fetched from, with a later end.
C15_Witness ==
    \E q \in Runs :
        /\ runs[q].pc = "get"
        /\ NextAfter(q, "skipped")
        /\ runs[q - 1].found
        /\ runs[q].found
        /\ runs[q].start_time = runs[q - 1].start_time
        /\ runs[q].end_time > runs[q - 1].end_time

\* C17: the update log is append-only: every step keeps the records it
\* held, in place and unchanged; and the watermark a run reads is the
\* greatest last_fetch_time of all records, wherever it was inserted.
C17_AppendOnlyLatestByValue ==
    [][/\ Len(updateLog') >= Len(updateLog)
       /\ SubSeq(updateLog', 1, Len(updateLog)) = updateLog
       /\ \A r \in Runs :
             (Plans(r) /\ updateLog # <<>>)
             => /\ runs'[r].found
                /\ \A i \in 1..Len(updateLog) : updateLog[i] <= runs'[r].start_time
                /\ \E i \in 1..Len(updateLog) : updateLog[i] = runs'[r].start_time]_vars

\* C17's case: a run that read the watermark 0, the first inserted of the
\* log <<0, -1>>, has appended its own after the two, which are kept.
C17_Witness ==
    \E r \in Runs :
        /\ runs[r].result = "ok"
        /\ runs[r].found
        /\ runs[r].start_time = 0
        /\ Len(updateLog) >= 3
        /\ SubSeq(updateLog, 1, 2) = <<0, -1>>
        /\ updateLog[Len(updateLog)] = runs[r].end_time

\* C18: a run whose fetch fails (transport error, unreadable body,
\* undecodable JSON) leaves the metrics store and the update log unchanged:
\* the fetch stage writes to neither, and the run returns with the error
\* without entering the persist stage.
C18_FetchFailureWritesNothing ==
    [][\A r \in Runs :
          /\ (runs[r].pc = "get" /\ runs'[r] # runs[r])
             => metrics' = metrics /\ updateLog' = updateLog
          /\ (runs[r].pc = "get"
                 /\ runs'[r].resp.kind \in {"transport", "readerr", "badjson"})
             => /\ runs'[r].pc = "done"
                /\ runs'[r].result \in FetchErrors
                /\ runs'[r].wrote = 0
          /\ runs[r].result \in FetchErrors => runs'[r] = runs[r]]_vars

\* C18's case: over stores that hold records, a run ended on a body that
\* does not decode, having written nothing.
C18_Witness ==
    \E r \in Runs :
        /\ runs[r].pc = "done"
        /\ runs[r].resp.kind = "badjson"
        /\ runs[r].result = "Unmarshal"
        /\ runs[r].wrote = 0
        /\ ~Stored(r)
        /\ metrics # <<>>
        /\ updateLog # <<>>

\* C19: in every reachable state every watermark of the update log is the
\* EndTime of some record of the metrics store, and there are at most as
\* many watermark records as metrics records.
C19_WatermarksHaveRecords ==
    /\ \A i \in 1..Len(updateLog) :
          \E j \in 1..Len(metrics) : metrics[j].EndTime = updateLog[i]
    /\ Len(updateLog) <= Len(metrics)

\* C19's case: a failed watermark write has left a record without a
\* watermark beside records that have theirs.
C19_Witness ==
    /\ \E r \in Runs : runs[r].result = "WatermarkWriteFailed" /\ Stored(r)
    /\ \E r \in Runs : runs[r].result = "ok"
    /\ Len(updateLog) >= 2
    /\ Len(metrics) > Len(updateLog)

\* C20: the authoritative watermark, the greatest last_fetch_time of the
\* update log (none being lower than any), never decreases from one state
\* to the next, also when overlapping runs append out of order.
C20_LatestNeverDecreases ==
    [][updateLog # <<>>
          => /\ updateLog' # <<>>
             /\ MaxOf(updateLog') >= MaxOf(updateLog)]_vars

\* C20's case: two overlapping runs have appended their watermarks out of
\* order, the greater one first.
C20_Witness ==
    \E r, q \in Runs :
        /\ runs[r].result = "ok"
        /\ runs[q].result = "ok"
        /\ runs[r].end_time < runs[q].end_time
        /\ Len(updateLog) >= 2
        /\ updateLog[Len(updateLog)] = runs[r].end_time
        /\ updateLog[Len(updateLog) - 1] = runs[q].end_time
        /\ MaxOf(updateLog) = runs[q].end_time

----------------------------------------------------------------------------
\* What the program itself makes happen: the scheduler's timer fires while
\* the scheduler is started, and main returns once it has stopped it.  The
\* steps that wait for the store or the API (Connect, ReadWatermark,
\* GetResponse, PushEnter, InsertMetrics, InsertLog) are taken when the peer
\* answers: the calls are made with context.TODO() and with http.Get on the
\* default client, which set no deadline, so nothing in the program forces
\* them to return.
LiveSpec ==
    /\ Init
    /\ [][Next]_vars
    /\ WF_vars(\E r \in Runs : Tick(r))
    /\ WF_vars(MainReturn)

\* C16: every run that starts eventually finishes (or ends with the
\* process), even when the API or the store never answers, since every
\* external call is bounded by a deadline.
C16_EveryRunFinishes ==
    \A r \in Runs : Active(r) ~> (~Active(r) \/ proc # "up")

====
